---- MODULE Spec2Model ----
(***************************************************************************)
(* A model of otto-pl.py: a thin client of a music-catalog API that scores *)
(* how well a track fits each of a user's playlists.                       *)
(*                                                                         *)
(* The remote API (spotipy) and the statistics library (numpy, scipy) are  *)
(* the environment: a page of a listing, an audio-features record and the  *)
(* value of a log-density are chosen by the environment when the program   *)
(* asks for them.  The program's own code -- the pagination loops, the     *)
(* filter, the vector construction, the null substitution, the sort -- is  *)
(* translated statement by statement.                                      *)
(*                                                                         *)
(* The code indexes and measures the result of filter() (tracks[0],        *)
(* len(tracks)), so it runs under Python 2, where filter() returns a list; *)
(* that is the semantics modelled.                                         *)
(***************************************************************************)
EXTENDS Integers, Sequences, FiniteSets, Bags

\* ------------------------------------------------------------------ bounds

\* Most pages a listing (of playlists, or of a playlist's tracks) is served in.
MaxPages == 2
\* Most items on one page.
MaxItems == 2
\* Largest track total of a playlist that is scored.
MaxTotal == 2
\* Most playlists handed to log_likelihoods_for_track.
MaxPlaylists == 2

\* ------------------------------------------------------------- Python values

\* Python's None where a string is expected (a token, a cursor, a track id).
NoneStr == "None"
\* Python's None where a number is expected (a nullable audio feature).
None == -1

Truthy(x) == x # NoneStr /\ x # ""

RECURSIVE SeqsUpTo(_, _)
SeqsUpTo(S, n) ==
    IF n = 0 THEN {<<>>}
    ELSE LET shorter == SeqsUpTo(S, n - 1)
         IN  shorter \cup {Append(s, x) : s \in {t \in shorter : Len(t) = n - 1}, x \in S}

Range(s) == {s[i] : i \in 1..Len(s)}

\* ------------------------------------------------------------ the remote API

Users == {"alice", "bob"}
Tokens == {"tokA"}
\* What prompt_for_user_token can return: a token, or nothing.
TokenReplies == Tokens \cup {NoneStr, ""}
Cursor == "next-page"

\* The playlists the listing can hold: one that qualifies, and one for each way
\* of not qualifying (collaborative, owned by someone else, private, one track,
\* no track), for the user u.
PlaylistKinds(u) ==
    LET good == [name |-> "p", collaborative |-> FALSE, owner |-> [id |-> u],
                 public |-> TRUE, tracks |-> [total |-> 2]]
        other == CHOOSE v \in Users : v # u
    IN  { good,
          [good EXCEPT !.collaborative = TRUE],
          [good EXCEPT !.owner = [id |-> other]],
          [good EXCEPT !.public = FALSE],
          [good EXCEPT !.tracks = [total |-> 1]],
          [good EXCEPT !.tracks = [total |-> 0]] }

\* A page of a paging object: its items and its 'next' cursor.
Pages(items, more) ==
    {[items |-> it, next |-> n] :
        it \in SeqsUpTo(items, MaxItems),
        n \in IF more THEN {NoneStr, Cursor} ELSE {NoneStr}}

VARIABLES
    pc,           \* where the program is
    username,     \* use_user: its argument; the user the client is authorized for
    token,        \* use_user: what prompt_for_user_token returned
    sp,           \* use_user: what it returned, <<>> for None, <<client>> otherwise
    console,      \* what was printed
    constructed,  \* the spotipy.Spotify clients constructed
    s_playlists,  \* get_playlists: the page at hand
    playlists,    \* get_playlists: the list it builds and returns
    listed,       \* every playlist the listing API has served, on any page
    fetched,      \* pages of the listing served so far
    track,        \* log_likelihoods_for_track: the candidate track
    in_playlists, \* log_likelihoods_for_track: its argument playlists
    done,         \* log_likelihoods_for_track: playlists the for loop has consumed
    results,      \* log_likelihoods_for_track: the (name, likelihood) pairs appended
    ranking,      \* log_likelihoods_for_track: the list it returns
    fits,         \* positions of the playlists a distribution was fitted to, in order
    s_tracks,     \* get_tracks_from_playlist: the page at hand
    unserved,     \* entries of the playlist the track API has not served yet
    served,       \* every entry the track API has served for the playlist, in order
    raw_tracks,   \* get_tracks_from_playlist: the list it appends to
    tracks,       \* get_distribution: the list get_tracks_from_playlist returned
    requests,     \* audio-features requests issued since get_distribution began
    track_features, \* feature_vector_from_track: the record the API returned
    vector,       \* feature_vector_from_track: the list it returned last
    data,         \* get_distribution: the data matrix, a sequence of rows
    index,        \* get_distribution: rows filled so far
    track_vector, \* log_likelihood_track_playlist: the vector handed to logpdf
    err           \* the exception that ended the program, NoneStr if none

authVars == <<username, token, sp, console, constructed>>
listVars == <<s_playlists, playlists, listed, fetched>>
inputVars == <<track, in_playlists>>
loopVars == <<done, results, ranking, fits>>
trackVars == <<s_tracks, unserved, served, raw_tracks, tracks>>
distVars == <<requests, track_features, vector, data, index, track_vector>>
scoreVars == <<inputVars, loopVars, trackVars, distVars, err>>

vars == <<pc, authVars, listVars, scoreVars>>

NoPage == [items |-> <<>>, next |-> NoneStr]

\* -------------------------------------------------------------------use_user

\* use_user with the test of the token left out: a client whatever came back.
UseUser_NoTest ==
    /\ pc = "use_user"
    /\ \E t \in TokenReplies :
          /\ token' = t
          /\ constructed' = Append(constructed, [auth |-> t])
          /\ sp' = <<[auth |-> t]>>
          /\ console' = console
    /\ pc' = "returned"
    /\ UNCHANGED <<username, listVars, scoreVars>>

\* src lines 94-99
UseUser ==
    /\ pc = "use_user"
    /\ \E t \in TokenReplies :
          /\ token' = t
          /\ IF Truthy(t)
             THEN /\ constructed' = Append(constructed, [auth |-> t])
                  /\ sp' = <<[auth |-> t]>>
                  /\ console' = console
             ELSE /\ console' = Append(console, <<"cant get token for", username>>)
                  /\ sp' = <<>>
                  /\ constructed' = constructed
    /\ pc' = "returned"
    /\ UNCHANGED <<username, listVars, scoreVars>>

\* --------------------------------------------------------------get_playlists

\* The filter with the test of 'public' left out.
PassesFilter_NoPublic(playlist, user) ==
    /\ ~playlist.collaborative
    /\ playlist.owner.id = user.id
    /\ playlist.tracks.total > 1

\* src lines 22-24
PassesFilter(playlist, user) ==
    /\ ~playlist.collaborative
    /\ playlist.owner.id = user.id
    /\ playlist.public
    /\ playlist.tracks.total > 1

\* The user the client is authorized for.
CurrentUser == [id |-> username]

\* src lines 16-18: called with the client use_user returned, which the caller
\* has found present
GP_Begin ==
    /\ pc = "returned"
    /\ sp # <<>>
    /\ playlists' = <<>>
    /\ \E page \in Pages(PlaylistKinds(username), fetched + 1 < MaxPages) :
          /\ s_playlists' = page
          /\ listed' = listed \cup Range(page.items)
    /\ fetched' = fetched + 1
    /\ pc' = "gp_loop"
    /\ UNCHANGED <<authVars, scoreVars>>

\* src lines 20-26
GP_Loop ==
    /\ pc = "gp_loop"
    /\ Truthy(s_playlists.next)
    /\ playlists' = playlists \o
           SelectSeq(s_playlists.items, LAMBDA p : PassesFilter(p, CurrentUser))
    /\ \E page \in Pages(PlaylistKinds(username), fetched + 1 < MaxPages) :
          /\ s_playlists' = page
          /\ listed' = listed \cup Range(page.items)
    /\ fetched' = fetched + 1
    /\ UNCHANGED <<pc, authVars, scoreVars>>

\* src lines 20, 28
GP_Return ==
    /\ pc = "gp_loop"
    /\ ~Truthy(s_playlists.next)
    /\ pc' = "gp_done"
    /\ UNCHANGED <<authVars, listVars, scoreVars>>

\* The state of the scoring part while the program is in use_user/get_playlists.
ScoreIdle ==
    /\ track = [id |-> NoneStr]
    /\ in_playlists = <<>>
    /\ done = 0
    /\ results = <<>>
    /\ ranking = <<>>
    /\ fits = <<>>
    /\ s_tracks = NoPage
    /\ unserved = 0
    /\ served = <<>>
    /\ raw_tracks = <<>>
    /\ tracks = <<>>
    /\ requests = <<>>
    /\ track_features = <<>>
    /\ vector = <<>>
    /\ data = <<>>
    /\ index = 0
    /\ track_vector = <<>>
    /\ err = NoneStr

Init ==
    /\ pc = "use_user"
    /\ username \in Users
    /\ token = NoneStr
    /\ sp = <<>>
    /\ console = <<>>
    /\ constructed = <<>>
    /\ s_playlists = NoPage
    /\ playlists = <<>>
    /\ listed = {}
    /\ fetched = 0
    /\ ScoreIdle

Next == UseUser \/ GP_Begin \/ GP_Loop \/ GP_Return

\* use_user, then get_playlists with the client it returned.
Spec == Init /\ [][Next]_vars

\* ---------------------------------------------------------- the track API

TrackIds == {"t1", "t2"}

\* An entry of a playlist's track listing; a local track has no identifier.
TrackItems == {[track |-> [id |-> i]] : i \in TrackIds \cup {NoneStr}}

Min(a, b) == IF a < b THEN a ELSE b

\* The pages the track API can serve next when u entries are still to come: a
\* page holds at least one entry while there is one, and its 'next' is null
\* exactly when it is the last.
TrackPages(u) ==
    {[items |-> it, next |-> IF Len(it) < u THEN Cursor ELSE NoneStr] :
        it \in {t \in SeqsUpTo(TrackItems, Min(MaxItems, u)) : u > 0 => Len(t) > 0}}

\* -------------------------------------------------- the audio-features API

\* src lines 69-80: the twelve fields, as the record names them
Fields ==
    {"acousticness", "danceability", "energy", "instrumentalness", "key",
     "liveness", "loudness", "mode", "speechiness", "tempo", "time_signature",
     "valence"}

\* The value the catalog holds for a feature: a different one for each field.
ValueOf(f) ==
    CASE f = "acousticness" -> 1 [] f = "danceability" -> 2 [] f = "energy" -> 3
      [] f = "instrumentalness" -> 4 [] f = "key" -> 5 [] f = "liveness" -> 6
      [] f = "loudness" -> 7 [] f = "mode" -> 8 [] f = "speechiness" -> 9
      [] f = "tempo" -> 10 [] f = "time_signature" -> 11 [] f = "valence" -> 12

\* The fields a record can hold null in: none, one in the middle, the first and
\* the last.
NullPatterns == {{}, {"key"}, {"acousticness", "valence"}}

FeatureRecords ==
    {[f \in Fields |-> IF f \in nulls THEN None ELSE ValueOf(f)] : nulls \in NullPatterns}

\* What sp.audio_features([id]) can return: a list of one record.
AudioFeatures(ids) == {<<r>> : r \in FeatureRecords}

\* --------------------------------------------------feature_vector_from_track

\* The vector with 'key' and 'liveness' appended in the other order.
FeatureVector_Swapped(features) ==
    <<features["acousticness"], features["danceability"], features["energy"],
      features["instrumentalness"], features["liveness"], features["key"],
      features["loudness"], features["mode"], features["speechiness"],
      features["tempo"], features["time_signature"], features["valence"]>>

\* src lines 68-82
FeatureVector(features) ==
    <<features["acousticness"], features["danceability"], features["energy"],
      features["instrumentalness"], features["key"], features["liveness"],
      features["loudness"], features["mode"], features["speechiness"],
      features["tempo"], features["time_signature"], features["valence"]>>

\* ------------------------------------------------------------- the library

\* A float: a number, or NaN.
NaN == [nan |-> TRUE, val |-> 0]
Float(v) == [nan |-> FALSE, val |-> v]
FloatLT(a, b) == ~a.nan /\ ~b.nan /\ a.val < b.val
FloatLE(a, b) == ~a.nan /\ ~b.nan /\ a.val <= b.val

\* The log-densities the library can return for a vector of numbers.
Likelihoods == {Float(-1), Float(0)}

\* src line 143: dist.logpdf(x).  The library converts x to an array of floats,
\* a None entry to NaN, and the density of a vector with a NaN entry is NaN.
LogPdf(x) ==
    IF \E k \in 1..Len(x) : x[k] = None THEN {NaN} ELSE Likelihoods

\* ------------------------------------------------------------------ sorted()

\* Where a stable sort puts x in the sorted list s: after every element that x
\* is not less than.
InsertAt(s, x) ==
    LET at == CHOOSE j \in 1..(Len(s) + 1) :
                  /\ \A m \in j..Len(s) : FloatLT(x[2], s[m][2])
                  /\ j > 1 => ~FloatLT(x[2], s[j - 1][2])
    IN  SubSeq(s, 1, at - 1) \o <<x>> \o SubSeq(s, at, Len(s))

RECURSIVE SortedFrom(_, _)
SortedFrom(acc, rest) ==
    IF rest = <<>> THEN acc ELSE SortedFrom(InsertAt(acc, Head(rest)), Tail(rest))

\* A sort that keeps one pair for each likelihood, the last.
Sorted_OnePerKey(pairs) ==
    SortedFrom(<<>>,
        LET keep == {i \in 1..Len(pairs) :
                        \A j \in (i + 1)..Len(pairs) : pairs[j][2] # pairs[i][2]}
            F[i \in 0..Len(pairs)] ==
                IF i = 0 THEN <<>>
                ELSE IF i \in keep THEN Append(F[i - 1], pairs[i]) ELSE F[i - 1]
        IN  F[Len(pairs)])

\* src line 160: sorted(results, key=lambda pair: pair[1])
Sorted(pairs) == SortedFrom(<<>>, pairs)

\* -------------------------------------------------- get_tracks_from_playlist

\* The playlist the for loop of log_likelihoods_for_track is at.
Playlist == in_playlists[done + 1]

\* The list returned as it is, local tracks and all.
WithId_All(ts) == ts

\* src line 53
WithId(ts) == SelectSeq(ts, LAMBDA t : t.id # NoneStr)

\* src lines 47-48
Appended(ts, page) == ts \o [k \in 1..Len(page.items) |-> page.items[k].track]

\* src lines 157-158, 141, 114, 41-44: the loop takes the next playlist and
\* get_tracks_from_playlist asks for its first page of tracks.  The locals of
\* the calls made for the playlist before are gone.
GT_Begin ==
    /\ pc = "ll_loop"
    /\ done < Len(in_playlists)
    /\ \E page \in TrackPages(Playlist.tracks.total) :
          /\ s_tracks' = page
          /\ served' = page.items
          /\ unserved' = Playlist.tracks.total - Len(page.items)
    /\ raw_tracks' = <<>>
    /\ tracks' = <<>>
    /\ requests' = <<>>
    /\ track_features' = <<>>
    /\ vector' = <<>>
    /\ data' = <<>>
    /\ index' = 0
    /\ track_vector' = <<>>
    /\ pc' = "gt_loop"
    /\ UNCHANGED <<authVars, listVars, inputVars, loopVars, err>>

\* src lines 46-51: a page that has a successor
GT_More ==
    /\ pc = "gt_loop"
    /\ Truthy(s_tracks.next)
    /\ raw_tracks' = Appended(raw_tracks, s_tracks)
    /\ \E page \in TrackPages(unserved) :
          /\ s_tracks' = page
          /\ served' = served \o page.items
          /\ unserved' = unserved - Len(page.items)
    /\ UNCHANGED <<pc, authVars, listVars, inputVars, loopVars, tracks, distVars, err>>

\* src lines 46-50, 53, 114: the last page
GT_Return ==
    /\ pc = "gt_loop"
    /\ ~Truthy(s_tracks.next)
    /\ raw_tracks' = Appended(raw_tracks, s_tracks)
    /\ tracks' = WithId(raw_tracks')
    /\ pc' = "gd_probe"
    /\ UNCHANGED <<authVars, listVars, inputVars, loopVars, s_tracks, unserved,
                   served, distVars, err>>

\* ----------------------------------------------------------- get_distribution

\* src line 66: the request feature_vector_from_track issues for a track
Request(t) == <<t.id>>

\* The number of features learnt without a request.
ProbeRequests_None(ts) == <<>>

\* src line 115: the requests issued to learn the number of features
ProbeRequests(ts) == <<Request(ts[1])>>

\* src line 119
ZeroForNone(v) == [k \in 1..Len(v) |-> IF v[k] = None THEN 0 ELSE v[k]]

\* src line 116: np.zeros((rows, columns))
Zeros(rows, columns) == [r \in 1..rows |-> [c \in 1..columns |-> 0]]

\* src line 115, on an empty list: tracks[0] raises
GD_ProbeFails ==
    /\ pc = "gd_probe"
    /\ tracks = <<>>
    /\ err' = "IndexError"
    /\ pc' = "raised"
    /\ UNCHANGED <<authVars, listVars, inputVars, loopVars, trackVars, distVars>>

\* src lines 115-116
GD_Probe ==
    /\ pc = "gd_probe"
    /\ tracks # <<>>
    /\ requests' = requests \o ProbeRequests(tracks)
    /\ \E reply \in AudioFeatures(Request(tracks[1])) :
          /\ track_features' = reply[1]
          /\ vector' = FeatureVector(reply[1])
    /\ data' = Zeros(Len(tracks), Len(vector'))
    /\ index' = 0
    /\ pc' = "gd_rows"
    /\ UNCHANGED <<authVars, listVars, inputVars, loopVars, trackVars,
                   track_vector, err>>

\* src lines 117-120: one turn of the loop over the tracks
GD_Row ==
    /\ pc = "gd_rows"
    /\ index < Len(tracks)
    /\ requests' = Append(requests, Request(tracks[index + 1]))
    /\ \E reply \in AudioFeatures(Request(tracks[index + 1])) :
          /\ track_features' = reply[1]
          /\ vector' = FeatureVector(reply[1])
    /\ data' = [data EXCEPT ![index + 1] = ZeroForNone(vector')]
    /\ index' = index + 1
    /\ UNCHANGED <<pc, authVars, listVars, inputVars, loopVars, trackVars,
                   track_vector, err>>

\* src lines 121-125, on a single row: np.cov of one observation is NaN
\* throughout, and multivariate_normal rejects a covariance that is not finite
GD_FitFails ==
    /\ pc = "gd_rows"
    /\ index = Len(tracks)
    /\ Len(data) < 2
    /\ err' = "ValueError"
    /\ pc' = "raised"
    /\ UNCHANGED <<authVars, listVars, inputVars, loopVars, trackVars, distVars>>

\* src lines 121-125
GD_Fit ==
    /\ pc = "gd_rows"
    /\ index = Len(tracks)
    /\ Len(data) >= 2
    /\ fits' = Append(fits, done + 1)
    /\ pc' = "ll_score"
    /\ UNCHANGED <<authVars, listVars, inputVars, done, results, ranking,
                   trackVars, distVars, err>>

\* ------------------------------------------------ log_likelihood_track_playlist

\* src lines 142-143, 159: the candidate's vector, its log-density, the pair
\* appended; get_distribution has returned and its locals are gone
LL_Score ==
    /\ pc = "ll_score"
    /\ requests' = Append(requests, Request(track))
    /\ \E reply \in AudioFeatures(Request(track)) :
          /\ track_features' = reply[1]
          /\ vector' = FeatureVector(reply[1])
    /\ track_vector' = vector'
    /\ \E likelihood \in LogPdf(track_vector') :
          results' = Append(results, <<Playlist.name, likelihood>>)
    /\ done' = done + 1
    /\ s_tracks' = NoPage
    /\ unserved' = 0
    /\ served' = <<>>
    /\ raw_tracks' = <<>>
    /\ tracks' = <<>>
    /\ data' = <<>>
    /\ index' = 0
    /\ pc' = "ll_loop"
    /\ UNCHANGED <<authVars, listVars, inputVars, ranking, fits, err>>

\* ---------------------------------------------------- log_likelihoods_for_track

\* src lines 157, 160
LL_Return ==
    /\ pc = "ll_loop"
    /\ done = Len(in_playlists)
    /\ ranking' = Sorted(results)
    /\ pc' = "ll_done"
    /\ UNCHANGED <<authVars, listVars, inputVars, done, results, fits,
                   trackVars, distVars, err>>

PlaylistNames == {"p", "q"}

\* The candidate tracks: a catalog track.
Candidates == {[id |-> "t1"]}

\* The playlists handed to log_likelihoods_for_track: the user's own, public,
\* not collaborative, of every total.
ScorePlaylists(u) ==
    {[name |-> n, collaborative |-> FALSE, owner |-> [id |-> u],
      public |-> TRUE, tracks |-> [total |-> t]] :
        n \in PlaylistNames, t \in 0..MaxTotal}

InitScore ==
    /\ pc = "ll_loop"
    /\ username = "alice"
    /\ token = "tokA"
    /\ sp = <<[auth |-> "tokA"]>>
    /\ console = <<>>
    /\ constructed = <<[auth |-> "tokA"]>>
    /\ s_playlists = NoPage
    /\ playlists = <<>>
    /\ listed = {}
    /\ fetched = 0
    /\ track \in Candidates
    /\ in_playlists \in SeqsUpTo(ScorePlaylists(username), MaxPlaylists)
    /\ done = 0
    /\ results = <<>>
    /\ ranking = <<>>
    /\ fits = <<>>
    /\ s_tracks = NoPage
    /\ unserved = 0
    /\ served = <<>>
    /\ raw_tracks = <<>>
    /\ tracks = <<>>
    /\ requests = <<>>
    /\ track_features = <<>>
    /\ vector = <<>>
    /\ data = <<>>
    /\ index = 0
    /\ track_vector = <<>>
    /\ err = NoneStr

NextScore ==
    \/ GT_Begin \/ GT_More \/ GT_Return
    \/ GD_ProbeFails \/ GD_Probe \/ GD_Row \/ GD_FitFails \/ GD_Fit
    \/ LL_Score \/ LL_Return

\* log_likelihoods_for_track on a candidate track and a list of playlists.
SpecScore == InitScore /\ [][NextScore]_vars

\* ================================================================== claims

\* A playlist that satisfies the filter of the specification.
Qualifies(p) ==
    /\ p.collaborative = FALSE
    /\ p.owner.id = username
    /\ p.public = TRUE
    /\ p.tracks.total > 1

\* The fixed order of the feature vector.
FieldOrder ==
    <<"acousticness", "danceability", "energy", "instrumentalness", "key",
      "liveness", "loudness", "mode", "speechiness", "tempo", "time_signature",
      "valence">>

\* C1: when get_playlists has returned, every qualifying playlist the listing
\* served, on whatever page (the last one included), is in the returned list.
C1_EveryQualifyingReturned ==
    pc = "gp_done" => \A p \in listed : Qualifies(p) => p \in Range(playlists)

\* C2: the list get_playlists builds never holds a playlist that is
\* collaborative, or not public, or owned by someone else, or of total 0 or 1.
C2_OnlyQualifying ==
    \A i \in 1..Len(playlists) :
        /\ ~playlists[i].collaborative
        /\ playlists[i].public
        /\ playlists[i].owner.id = username
        /\ playlists[i].tracks.total \notin {0, 1}

\* C2's case: get_playlists returned a playlist and turned others down, all of
\* them on a page it went through.
C2_Witness ==
    /\ pc = "gp_done"
    /\ Len(playlists) >= 1
    /\ s_playlists.items = <<>>
    /\ \E p \in listed : ~Qualifies(p)

\* C3: what get_tracks_from_playlist returns is the tracks of all the pages, the
\* last one included, in page order, without those whose identifier is null.
C3_TracksOfAllPages ==
    pc = "gd_probe" =>
        /\ Len(served) = Playlist.tracks.total
        /\ tracks = SelectSeq([k \in 1..Len(served) |-> served[k].track],
                              LAMBDA t : t.id # NoneStr)
        /\ \A k \in 1..Len(tracks) : tracks[k].id # NoneStr

\* C3's case: several pages, a local track dropped, a catalog track kept.
C3_Witness ==
    /\ pc = "gd_probe"
    /\ Len(served) > Len(s_tracks.items)
    /\ Len(tracks) >= 1
    /\ Len(tracks) < Len(served)

C5_Ascending ==
    pc = "ll_done" =>
        \A i \in 1..(Len(ranking) - 1) : FloatLE(ranking[i][2], ranking[i + 1][2])

\* The requests of one per track, in order.
OnePerTrack == [k \in 1..Len(tracks) |-> <<tracks[k].id>>]

\* C6 as stated: when get_distribution has fitted, the requests it issued are
\* one per track: n in all, each track's identifier once.
C6_OneRequestPerTrack ==
    pc = "ll_score" => requests = OnePerTrack

\* C6, amended: get_distribution issues n + 1 requests for n >= 1 tracks, each
\* for one identifier: one for the first track, then one per track in order;
\* for n = 0 it issues none and fails.
C6_ProbeThenOnePerTrack ==
    /\ pc = "ll_score" => requests = <<<<tracks[1].id>>>> \o OnePerTrack
    /\ pc = "raised" =>
          IF tracks = <<>> THEN requests = <<>> /\ err = "IndexError"
          ELSE requests = <<<<tracks[1].id>>>> \o OnePerTrack

\* C6's case: a distribution fitted to a playlist of two tracks or more.
C6_Witness ==
    /\ pc = "ll_score"
    /\ Len(tracks) >= 2

\* C7: use_user returns a client exactly when a token was obtained; without one
\* it prints a message, returns None, constructs no client and raises nothing.
C7_ClientIffToken ==
    pc # "use_user" =>
        /\ sp # <<>> <=> token \in Tokens
        /\ token \in Tokens =>
              /\ sp = <<[auth |-> token]>>
              /\ constructed = sp
              /\ console = <<>>
        /\ token \notin Tokens =>
              /\ sp = <<>>
              /\ constructed = <<>>
              /\ console = <<<<"cant get token for", username>>>>
        /\ err = NoneStr

\* C7's case: use_user returned without a token.
C7_Witness ==
    /\ pc = "returned"
    /\ token \notin Tokens
    /\ sp = <<>>

\* The record's values in the fixed order, 0 for null.
ZeroedFeatures == [k \in 1..12 |-> IF track_features[FieldOrder[k]] = None
                                   THEN 0 ELSE track_features[FieldOrder[k]]]

\* C8: every vector that reaches the statistics has 0 for null: the row just
\* written to the data matrix, and the candidate's vector handed to logpdf.
C8_ZeroForNullEverywhere ==
    /\ (pc = "gd_rows" /\ index > 0) => data[index] = ZeroedFeatures
    /\ (pc \in {"ll_loop", "ll_done"} /\ track_vector # <<>>) =>
          track_vector = ZeroedFeatures

\* The names of a list of playlists or of pairs, with their multiplicities.
NameBag(names) ==
    [n \in Range(names) |-> Cardinality({i \in 1..Len(names) : names[i] = n})]

\* C9: log_likelihoods_for_track returns one pair per input playlist: as many
\* pairs as playlists, the same names as many times, one fit per playlist.
C9_OnePairPerPlaylist ==
    pc = "ll_done" =>
        /\ Len(ranking) = Len(in_playlists)
        /\ NameBag([i \in 1..Len(ranking) |-> ranking[i][1]])
             = NameBag([i \in 1..Len(in_playlists) |-> in_playlists[i].name])
        /\ fits = [i \in 1..Len(in_playlists) |-> i]

\* C9's case: two playlists of the same name and the same score.
C9_Witness ==
    /\ pc = "ll_done"
    /\ Len(in_playlists) >= 2
    /\ in_playlists[1].name = in_playlists[2].name
    /\ ranking[1][2] = ranking[2][2]
    /\ ~ranking[1][2].nan

\* C10: for a playlist the filter admits, tracks is not empty when tracks[0] is
\* read, the data matrix has two rows or more, and the fit does not fail.
C10_AdmittedFitsOnTwoRows ==
    (pc \in {"gd_probe", "gd_rows", "raised"} /\ Qualifies(Playlist)) =>
        /\ pc = "gd_probe" => tracks # <<>>
        /\ pc = "gd_rows" => Len(data) >= 2
        /\ pc # "raised"

====
